---- MODULE Spec2Model ----
(***************************************************************************)
(* iPerfer (src/cpp/src/iPerfer.cpp): a client process and a server        *)
(* process joined by one TCP connection.  Each process is a record holding *)
(* the locals of runClient / runServer and a program counter that names    *)
(* the blocking call the process is at; the connection is the pair of      *)
(* byte counts in flight in each direction.  One step of the model is one  *)
(* return of a blocking system call followed by the straight-line code up  *)
(* to the next blocking call.                                              *)
(***************************************************************************)
EXTENDS Integers, Sequences, FiniteSets

(* ---------------- program constants (iPerfer.cpp:16-19) ---------------- *)
ONE_BYTE_SIZE == 1
CHUNK_SIZE == 80000
RTT_EXCHANGES == 8

(* ---------------------------- model bounds ----------------------------- *)
\* the client sends at most MaxChunks chunks in one session
MaxChunks == 3
\* durationSeconds ranges over 1..MaxDuration clock ticks
MaxDuration == 3
\* size of a short transfer of the send/recv primitives
Seg == 20000
\* the clock of the RTT phase runs from 0 to MaxTime milliseconds
MaxTime == 2
\* the averaging is run on up to MaxSamples samples of 0..MaxMs milliseconds
MaxSamples == 5
MaxMs == 2
\* the throughput is computed for transfers of 0..MaxElapsedMs milliseconds
MaxElapsedMs == 3
\* sendAll and recvAll on their own are called with len in 0..MaxLen
MaxLen == 5
\* main is run on command lines of up to MaxArgs options and stray words
MaxArgs == 4

\* client, server, net, durationSeconds and now are the session: the two
\* processes, the connection, the -t argument and the clock read by the RTT
\* loops.  calc, xfer and cmd are the state of the specifications that run
\* the averaging and throughput arithmetic, one sendAll/recvAll call and
\* main's argument handling on their own.
VARIABLES client, server, net, durationSeconds, now, calc, xfer, cmd

side == <<now, calc, xfer, cmd>>

vars == <<client, server, net, durationSeconds, side>>

Min(a, b) == IF a < b THEN a ELSE b

(* ------------------------- the socket primitives ----------------------- *)
\* the byte counts a primitive may move when at most n bytes can be moved
PartialSizes(n) == {k \in {Seg, 3 * Seg, n} : k >= 1 /\ k <= n}

\* return values of send(sockfd, buffer + totalSent, len - totalSent, 0)
\* other than the hard error -1 (which stands for every errno, EPIPE and
\* ECONNRESET included; a process killed by SIGPIPE inside send() is not
\* modelled: no statement of runClient or runServer runs after it)
SendReturns(remaining) == {0} \cup PartialSizes(remaining)

\* return values of recv(sockfd, buffer + totalRecv, len - totalRecv, 0)
\* other than the hard error -1: data when some is queued, 0 (end of
\* stream) when nothing is queued and the peer has closed; with nothing
\* queued and the peer open the call blocks
RecvReturns(remaining, avail, peerGone) ==
    IF avail > 0 THEN PartialSizes(Min(remaining, avail))
    ELSE IF peerGone THEN {0} ELSE {}

\* variant: sendAll calls send() once and reports what it was given as sent
SendAllStepOnce(totalSent, len, sent) ==
    IF sent < 0 THEN [status |-> "fail", total |-> totalSent]
    ELSE IF sent = 0 THEN [status |-> "fail", total |-> totalSent]
    ELSE [status |-> "ok", total |-> totalSent + sent]

\* one pass of sendAll's loop body on send()'s return value
SendAllStep(totalSent, len, sent) ==
    IF sent < 0 THEN [status |-> "fail", total |-> totalSent]
    ELSE IF sent = 0 THEN [status |-> "fail", total |-> totalSent]
    ELSE IF totalSent + sent < len
         THEN [status |-> "more", total |-> totalSent + sent]
         ELSE [status |-> "ok", total |-> totalSent + sent]

\* variant: recvAll takes a return of 0 for "nothing yet" and calls recv again
RecvAllStepRetryOnZero(totalRecv, len, r) ==
    IF r < 0 THEN [status |-> "fail", total |-> totalRecv]
    ELSE IF totalRecv + r < len
         THEN [status |-> "more", total |-> totalRecv + r]
         ELSE [status |-> "ok", total |-> totalRecv + r]

\* one pass of recvAll's loop body on recv()'s return value
RecvAllStep(totalRecv, len, r) ==
    IF r < 0 THEN [status |-> "fail", total |-> totalRecv]
    ELSE IF r = 0 THEN [status |-> "fail", total |-> totalRecv]
    ELSE IF totalRecv + r < len
         THEN [status |-> "more", total |-> totalRecv + r]
         ELSE [status |-> "ok", total |-> totalRecv + r]

Moved(ret) == IF ret > 0 THEN ret ELSE 0

\* the peer's end of the connection no longer exists
ServerGone == server.sock = "closed" \/ server.pc = "exit1"
ClientGone == client.sock = "closed"

(* ------------------------------- phases -------------------------------- *)
ClientPhase(pc) ==
    CASE pc \in {"resolve", "socket", "connect"} -> "Init"
      [] pc \in {"rttSend", "rttRecv"} -> "RttProbe"
      [] pc \in {"check", "sendChunk", "recvAck"} -> "Transfer"
      [] pc = "report" -> "Report"
      [] OTHER -> "Closed"

ServerPhase(pc) ==
    CASE pc \in {"socket", "bind", "listen", "accept"} -> "Init"
      [] pc \in {"rttRecv", "rttSend"} -> "RttProbe"
      [] pc \in {"recvChunk", "sendAck"} -> "Transfer"
      [] pc = "report" -> "Report"
      [] OTHER -> "Closed"

PhaseRank(ph) ==
    CASE ph = "Init" -> 0
      [] ph = "RttProbe" -> 1
      [] ph = "Transfer" -> 2
      [] ph = "Report" -> 3
      [] OTHER -> 4

(* ----------------------------- initial state --------------------------- *)
\* Fields pc .. summaries are the process's own state: the socket, the loop
\* index i, the progress (total) of the sendAll/recvAll call in hand, the
\* samples in milliseconds with their timestamps and average, the counters
\* and the number of summary lines logged.  The fields after them are
\* history the program does not keep: the phase and call that failed, the
\* bytes moved, the calls that returned true, the iteration that pushed each
\* sample and the times at which the server read a probe and sent an ack.
InitClient ==
    [pc |-> "resolve", sock |-> "none", closes |-> 0, usedAfterClose |-> FALSE,
     i |-> 0, total |-> 0, rttSamples |-> <<>>, sendTime |-> 0,
     avgRTT |-> [num |-> 0, den |-> 1],
     chunkCount |-> 0, totalBytesSent |-> 0, elapsed |-> 0,
     summaries |-> 0, failedIn |-> "none", failedCall |-> "none",
     probesSent |-> 0, probeAcks |-> 0, dataSent |-> 0, chunksSent |-> 0,
     acksRecv |-> 0, sampleIter |-> <<>>]

InitServer ==
    [pc |-> "socket", serverSock |-> "none", sock |-> "none", closes |-> 0,
     usedAfterClose |-> FALSE,
     i |-> 0, total |-> 0, rttSamples |-> <<>>, haveLastAckTime |-> FALSE,
     ackSendTime |-> 0, avgRTT |-> [num |-> 0, den |-> 1],
     chunkCount |-> 0, totalBytesReceived |-> 0,
     summaries |-> 0, failedIn |-> "none", failedCall |-> "none",
     probesRecv |-> 0, probeAcks |-> 0, dataRecv |-> 0, chunksRecv |-> 0,
     acksSent |-> 0, sampleIter |-> <<>>, recvTimes |-> <<>>, ackTimes |-> <<>>]

\* calc, xfer and cmd when the specification does not use them
Idle == [op |-> "none"]

InitSession ==
    /\ client = InitClient
    /\ server = InitServer
    /\ net = [c2s |-> 0, s2c |-> 0, pending |-> FALSE]
    /\ now = 0

Init ==
    /\ InitSession
    /\ durationSeconds \in 1..MaxDuration
    /\ calc = Idle /\ xfer = Idle /\ cmd = Idle

(* ------------------------ shared socket bookkeeping -------------------- *)
\* close(fd) on the connection's socket
CloseSock(p) == [p EXCEPT !.sock = "closed", !.closes = @ + 1]

\* a send() or recv() is issued on the connection's socket
UseSock(p) == [p EXCEPT !.usedAfterClose = @ \/ (p.sock = "closed")]

\* bytes handed to the kernel reach the peer's queue unless the peer's end
\* is gone, in which case they are discarded
Deliver(queued, n, peerGone) == IF peerGone THEN queued ELSE queued + n

\* history kept for the properties: which call of which phase failed, and
\* how many sendAll/recvAll calls returned true
Failed(p, phase, call, res) ==
    IF res.status = "fail" THEN [p EXCEPT !.failedIn = phase, !.failedCall = call]
    ELSE p

Done(res) == IF res.status = "ok" THEN 1 ELSE 0

\* history: the iteration in which a step pushed a sample
NoteSample(old, new) ==
    IF Len(new.rttSamples) > Len(old.rttSamples)
    THEN [new EXCEPT !.sampleIter = Append(@, old.i)]
    ELSE new

(* --------------------------- RTT estimate ------------------------------ *)
\* sum of rttSamples[i] for i = startIndex .. n-1 (0-based, as in the code)
RECURSIVE SumFrom(_, _)
SumFrom(rttSamples, i) ==
    IF i >= Len(rttSamples) THEN 0
    ELSE rttSamples[i + 1] + SumFrom(rttSamples, i + 1)

\* variant: the averaging loop starts at the first sample
StartIndexAll(n) == 0

\* first index the averaging loop reads
StartIndex(n) == IF n > 4 THEN n - 4 ELSE 0

\* avgRTT as the fraction sum / count, exact (the code's doubles round it)
AvgRTT(rttSamples) ==
    LET n == Len(rttSamples)
        startIndex == StartIndex(n)
    IN IF n > 0
       THEN [num |-> SumFrom(rttSamples, startIndex), den |-> n - startIndex]
       ELSE [num |-> 0, den |-> 1]

(* =============================== CLIENT ================================ *)
\* runClient 1): getaddrinfo(); exit(1) on failure
ClientResolve(ok) ==
    /\ client.pc = "resolve"
    /\ client' = [client EXCEPT !.pc = IF ok THEN "socket" ELSE "exit1"]
    /\ UNCHANGED <<server, net, durationSeconds, side>>

\* runClient 2): socket(); exit(1) on failure
ClientSocket(ok) ==
    /\ client.pc = "socket"
    /\ client' = IF ok THEN [client EXCEPT !.pc = "connect", !.sock = "open"]
                 ELSE [client EXCEPT !.pc = "exit1"]
    /\ UNCHANGED <<server, net, durationSeconds, side>>

\* connect() failed: close(sockfd); exit(1)
ClientConnectFail(c) == [CloseSock(c) EXCEPT !.pc = "exit1"]

\* runClient 3): connect() succeeds only against a listening socket
ClientConnect(ok) ==
    /\ client.pc = "connect"
    /\ ok => server.serverSock = "listening"
    /\ client' = IF ok THEN [client EXCEPT !.pc = "rttSend", !.i = 0, !.total = 0]
                 ELSE ClientConnectFail(client)
    /\ net' = IF ok THEN [net EXCEPT !.pending = TRUE] ELSE net
    /\ UNCHANGED <<server, durationSeconds, side>>

\* variant: the RTT loop stops one exchange early
ClientRttLoopShort(i) == i < RTT_EXCHANGES - 1

\* loop condition of the client's RTT loop
ClientRttLoop(i) == i < RTT_EXCHANGES

\* variant: break instead of return, falling through to the rest of runClient
ClientRttFailBreak(c) == [c EXCEPT !.pc = "check", !.total = 0]

\* sendAll/recvAll failed in the RTT loop: close(sockfd); return
ClientRttFail(c) == [CloseSock(c) EXCEPT !.pc = "returned"]

\* the probe byte was sent
ClientProbeSent(c) == [c EXCEPT !.pc = "rttRecv", !.total = 0, !.sendTime = now]

\* RTT loop body, first half: sendTime, sendAll(sockfd, &outByte, 1)
ClientRttSend(sent) ==
    /\ client.pc = "rttSend"
    /\ LET res == SendAllStep(client.total, ONE_BYTE_SIZE, sent)
           c == [Failed(UseSock(client), "rtt", "send", res)
                    EXCEPT !.probesSent = @ + Done(res)]
       IN /\ client' = CASE res.status = "fail" -> ClientRttFail(c)
                         [] res.status = "more" -> [c EXCEPT !.total = res.total]
                         [] OTHER -> ClientProbeSent(c)
          /\ net' = [net EXCEPT !.c2s = Deliver(@, Moved(sent), ServerGone),
                                !.s2c = IF client'.sock = "closed" THEN 0 ELSE @]
    /\ UNCHANGED <<server, durationSeconds, side>>

\* the ack of exchange i arrived: push the sample, i++, and either loop or
\* fall through to the averaging and dataStart
ClientSampleTaken(c) ==
    LET next == c.i + 1
        samples == Append(c.rttSamples, now - c.sendTime)
    IN [c EXCEPT !.rttSamples = samples, !.i = next, !.total = 0,
                 !.pc = IF ClientRttLoop(next) THEN "rttSend" ELSE "check",
                 !.avgRTT = IF ClientRttLoop(next) THEN @ ELSE AvgRTT(samples),
                 !.elapsed = 0]

\* RTT loop body, second half: recvAll(sockfd, &inByte, 1), recvTime, sample
ClientRttRecv(r) ==
    /\ client.pc = "rttRecv"
    /\ LET res == RecvAllStep(client.total, ONE_BYTE_SIZE, r)
           c == [Failed(UseSock(client), "rtt", "recv", res)
                    EXCEPT !.probeAcks = @ + Done(res)]
       IN /\ client' = CASE res.status = "fail" -> ClientRttFail(c)
                         [] res.status = "more" -> [c EXCEPT !.total = res.total]
                         [] OTHER -> NoteSample(c, ClientSampleTaken(c))
          /\ net' = [net EXCEPT !.s2c = IF client'.sock = "closed" THEN 0
                                        ELSE @ - Moved(r)]
    /\ UNCHANGED <<server, durationSeconds, side>>

\* the Transfer loop is left (break): dataEnd, close(sockfd)
ClientEndTransfer(c) == [CloseSock(c) EXCEPT !.pc = "report"]

\* variant: a failed Transfer closes and returns without the summary
ClientTransferFailReturn(c) == [CloseSock(c) EXCEPT !.pc = "returned"]

\* an I/O call of the Transfer loop failed: log, break
ClientTransferFail(c) == ClientEndTransfer(c)

\* variant: the loop goes on while elapsed equals the duration
ClientDurationElapsedLate(elapsed, duration) == elapsed > duration

\* the duration test at the top of the Transfer loop
ClientDurationElapsed(elapsed, duration) == elapsed >= duration

\* top of the Transfer loop: now, elapsed, break when elapsed >= duration
ClientCheck ==
    /\ client.pc = "check"
    /\ IF ClientDurationElapsed(client.elapsed, durationSeconds)
       THEN /\ client' = ClientEndTransfer(client)
            /\ net' = [net EXCEPT !.s2c = 0]
       ELSE /\ client.chunkCount < MaxChunks
            /\ client' = [client EXCEPT !.pc = "sendChunk", !.total = 0]
            /\ net' = net
    /\ UNCHANGED <<server, durationSeconds, side>>

\* variant: the next chunk is sent without waiting for the ack
ClientChunkSentNoWait(c) ==
    [c EXCEPT !.totalBytesSent = @ + CHUNK_SIZE, !.chunkCount = @ + 1,
              !.pc = "check", !.total = 0]

\* variant: the counters are not advanced when the send has succeeded
ClientChunkSentUncounted(c) == [c EXCEPT !.pc = "recvAck", !.total = 0]

\* sendAll of the chunk returned true: totalBytesSent += CHUNK_SIZE,
\* chunkCount++, then wait for the ack
ClientChunkSent(c) ==
    [c EXCEPT !.totalBytesSent = @ + CHUNK_SIZE, !.chunkCount = @ + 1,
              !.pc = "recvAck", !.total = 0]

\* Transfer loop body: sendAll(sockfd, chunk.data(), CHUNK_SIZE)
ClientSendChunk(sent) ==
    /\ client.pc = "sendChunk"
    /\ LET res == SendAllStep(client.total, CHUNK_SIZE, sent)
           c == [Failed(UseSock(client), "transfer", "send", res)
                    EXCEPT !.dataSent = @ + Moved(sent),
                           !.chunksSent = @ + Done(res)]
       IN /\ client' = CASE res.status = "fail" -> ClientTransferFail(c)
                         [] res.status = "more" -> [c EXCEPT !.total = res.total]
                         [] OTHER -> ClientChunkSent(c)
          /\ net' = [net EXCEPT !.c2s = Deliver(@, Moved(sent), ServerGone),
                                !.s2c = IF client'.sock = "closed" THEN 0 ELSE @]
    /\ UNCHANGED <<server, durationSeconds, side>>

\* the chunk's ack arrived: next iteration
ClientAckReceived(c) == [c EXCEPT !.pc = "check", !.total = 0]

\* Transfer loop body: recvAll(sockfd, ackBuf, 1)
ClientRecvAck(r) ==
    /\ client.pc = "recvAck"
    /\ LET res == RecvAllStep(client.total, ONE_BYTE_SIZE, r)
           c == [Failed(UseSock(client), "transfer", "recv", res)
                    EXCEPT !.acksRecv = @ + Done(res)]
       IN /\ client' = CASE res.status = "fail" -> ClientTransferFail(c)
                         [] res.status = "more" -> [c EXCEPT !.total = res.total]
                         [] OTHER -> ClientAckReceived(c)
          /\ net' = [net EXCEPT !.s2c = IF client'.sock = "closed" THEN 0
                                        ELSE @ - Moved(r)]
    /\ UNCHANGED <<server, durationSeconds, side>>

\* runClient 6): throughput calculation and the summary line, then return
ClientReport ==
    /\ client.pc = "report"
    /\ client' = [client EXCEPT !.summaries = @ + 1, !.pc = "returned"]
    /\ UNCHANGED <<server, net, durationSeconds, side>>

\* the clock advances while the client is in its Transfer loop
Tick ==
    /\ ClientPhase(client.pc) = "Transfer"
    /\ client.elapsed < MaxDuration
    /\ client' = [client EXCEPT !.elapsed = @ + 1]
    /\ UNCHANGED <<server, net, durationSeconds, side>>

(* =============================== SERVER ================================ *)
\* runServer 1): socket(); exit(1) on failure
ServerSocket(ok) ==
    /\ server.pc = "socket"
    /\ server' = IF ok THEN [server EXCEPT !.pc = "bind", !.serverSock = "open"]
                 ELSE [server EXCEPT !.pc = "exit1"]
    /\ UNCHANGED <<client, net, durationSeconds, side>>

\* runServer 3): bind(); close(serverSock); exit(1) on failure
ServerBind(ok) ==
    /\ server.pc = "bind"
    /\ server' = IF ok THEN [server EXCEPT !.pc = "listen", !.serverSock = "bound"]
                 ELSE [server EXCEPT !.pc = "exit1", !.serverSock = "closed"]
    /\ UNCHANGED <<client, net, durationSeconds, side>>

\* runServer 4): listen(); close(serverSock); exit(1) on failure
ServerListen(ok) ==
    /\ server.pc = "listen"
    /\ server' = IF ok THEN [server EXCEPT !.pc = "accept", !.serverSock = "listening"]
                 ELSE [server EXCEPT !.pc = "exit1", !.serverSock = "closed"]
    /\ UNCHANGED <<client, net, durationSeconds, side>>

\* runServer 5): accept() returns the pending connection, then
\* close(serverSock); on failure close(serverSock); exit(1)
ServerAccept(ok) ==
    /\ server.pc = "accept"
    /\ ok => net.pending
    /\ server' = IF ok
                 THEN [server EXCEPT !.pc = "rttRecv", !.serverSock = "closed",
                                     !.sock = "open", !.i = 0, !.total = 0,
                                     !.haveLastAckTime = FALSE]
                 ELSE [server EXCEPT !.pc = "exit1", !.serverSock = "closed"]
    /\ net' = [net EXCEPT !.pending = FALSE,
                          !.c2s = IF ok THEN @ ELSE 0]
    /\ UNCHANGED <<client, durationSeconds, side>>

\* loop condition of the server's RTT loop
ServerRttLoop(i) == i < RTT_EXCHANGES

\* variant: close(clientSock) without the return, the loop goes on
ServerRttFailNoReturn(sv) == [CloseSock(sv) EXCEPT !.pc = "rttRecv", !.total = 0]

\* sendAll/recvAll failed in the RTT loop: close(clientSock); return
ServerRttFail(sv) == [CloseSock(sv) EXCEPT !.pc = "returned"]

\* variant: a sample is pushed in every iteration, the first included
ServerProbeReceivedAlways(sv) ==
    [sv EXCEPT !.rttSamples = Append(@, now - sv.ackSendTime),
               !.pc = "rttSend", !.total = 0]

\* a probe byte arrived: a sample is pushed when a previous ackSendTime exists
ServerProbeReceived(sv) ==
    [sv EXCEPT !.rttSamples = IF sv.haveLastAckTime
                              THEN Append(@, now - sv.ackSendTime) ELSE @,
               !.pc = "rttSend", !.total = 0]

\* RTT loop body, first half: recvAll(clientSock, &inByte, 1), sample
ServerRttRecv(r) ==
    /\ server.pc = "rttRecv"
    /\ LET res == RecvAllStep(server.total, ONE_BYTE_SIZE, r)
           sv == [Failed(UseSock(server), "rtt", "recv", res)
                     EXCEPT !.probesRecv = @ + Done(res),
                            !.recvTimes = IF res.status = "ok"
                                          THEN Append(@, now) ELSE @]
       IN /\ server' = CASE res.status = "fail" -> ServerRttFail(sv)
                         [] res.status = "more" -> [sv EXCEPT !.total = res.total]
                         [] OTHER -> NoteSample(sv, ServerProbeReceived(sv))
          /\ net' = [net EXCEPT !.c2s = IF server'.sock = "closed" THEN 0
                                        ELSE @ - Moved(r)]
    /\ UNCHANGED <<client, durationSeconds, side>>

\* the ack of exchange i was sent: ackSendTime, haveLastAckTime, i++, and
\* either loop or fall through to the averaging and dataStart
\* variant: the timestamp of the ack is not recorded
ServerProbeAckedStaleTime(sv) ==
    LET next == sv.i + 1
    IN [sv EXCEPT !.haveLastAckTime = TRUE, !.i = next, !.total = 0,
                  !.avgRTT = IF ServerRttLoop(next) THEN @ ELSE AvgRTT(sv.rttSamples),
                  !.pc = IF ServerRttLoop(next) THEN "rttRecv" ELSE "recvChunk"]

ServerProbeAcked(sv) ==
    LET next == sv.i + 1
    IN [sv EXCEPT !.ackSendTime = now, !.haveLastAckTime = TRUE,
                  !.i = next, !.total = 0,
                  !.avgRTT = IF ServerRttLoop(next) THEN @ ELSE AvgRTT(sv.rttSamples),
                  !.pc = IF ServerRttLoop(next) THEN "rttRecv" ELSE "recvChunk"]

\* RTT loop body, second half: sendAll(clientSock, &ack, 1)
ServerRttSend(sent) ==
    /\ server.pc = "rttSend"
    /\ LET res == SendAllStep(server.total, ONE_BYTE_SIZE, sent)
           sv == [Failed(UseSock(server), "rtt", "send", res)
                     EXCEPT !.probeAcks = @ + Done(res),
                            !.ackTimes = IF res.status = "ok"
                                         THEN Append(@, now) ELSE @]
       IN /\ server' = CASE res.status = "fail" -> ServerRttFail(sv)
                         [] res.status = "more" -> [sv EXCEPT !.total = res.total]
                         [] OTHER -> ServerProbeAcked(sv)
          /\ net' = [net EXCEPT !.s2c = Deliver(@, Moved(sent), ClientGone),
                                !.c2s = IF server'.sock = "closed" THEN 0 ELSE @]
    /\ UNCHANGED <<client, durationSeconds, side>>

\* the Transfer loop is left (break): dataEnd, close(clientSock)
ServerEndTransfer(sv) == [CloseSock(sv) EXCEPT !.pc = "report"]

\* variant: the bytes of the chunk that was being read are added to the total
ServerTransferFailPartial(sv) ==
    [CloseSock(sv) EXCEPT !.pc = "report", !.totalBytesReceived = @ + sv.total]

\* variant: the attempt that failed is counted as a chunk
ServerTransferFailCounted(sv) ==
    [CloseSock(sv) EXCEPT !.pc = "report", !.chunkCount = @ + 1,
                          !.totalBytesReceived = @ + CHUNK_SIZE]

\* an I/O call of the Transfer loop failed: break
ServerTransferFail(sv) == ServerEndTransfer(sv)

\* variant: a chunk received is not added to the counters
ServerChunkReceivedUncounted(sv) == [sv EXCEPT !.pc = "sendAck", !.total = 0]

\* variant: after a chunk the server reads the next one without acknowledging
ServerChunkReceivedNoAck(sv) ==
    [sv EXCEPT !.totalBytesReceived = @ + CHUNK_SIZE, !.chunkCount = @ + 1,
               !.pc = "recvChunk", !.total = 0]

\* recvAll of a chunk returned true: totalBytesReceived += CHUNK_SIZE,
\* chunkCount++, then send the ack
ServerChunkReceived(sv) ==
    [sv EXCEPT !.totalBytesReceived = @ + CHUNK_SIZE, !.chunkCount = @ + 1,
               !.pc = "sendAck", !.total = 0]

\* Transfer loop body: recvAll(clientSock, dataBuf.data(), CHUNK_SIZE)
ServerRecvChunk(r) ==
    /\ server.pc = "recvChunk"
    /\ LET res == RecvAllStep(server.total, CHUNK_SIZE, r)
           sv == [Failed(UseSock(server), "transfer", "recv", res)
                     EXCEPT !.dataRecv = @ + Moved(r),
                            !.chunksRecv = @ + Done(res)]
       IN /\ server' = CASE res.status = "fail" -> ServerTransferFail(sv)
                         [] res.status = "more" -> [sv EXCEPT !.total = res.total]
                         [] OTHER -> ServerChunkReceived(sv)
          /\ net' = [net EXCEPT !.c2s = IF server'.sock = "closed" THEN 0
                                        ELSE @ - Moved(r)]
    /\ UNCHANGED <<client, durationSeconds, side>>

\* the chunk's ack was sent: next iteration
ServerAckSent(sv) == [sv EXCEPT !.pc = "recvChunk", !.total = 0]

\* Transfer loop body: sendAll(clientSock, &ack, 1)
ServerSendAck(sent) ==
    /\ server.pc = "sendAck"
    /\ LET res == SendAllStep(server.total, ONE_BYTE_SIZE, sent)
           sv == [Failed(UseSock(server), "transfer", "send", res)
                     EXCEPT !.acksSent = @ + Done(res)]
       IN /\ server' = CASE res.status = "fail" -> ServerTransferFail(sv)
                         [] res.status = "more" -> [sv EXCEPT !.total = res.total]
                         [] OTHER -> ServerAckSent(sv)
          /\ net' = [net EXCEPT !.s2c = Deliver(@, Moved(sent), ClientGone),
                                !.c2s = IF server'.sock = "closed" THEN 0 ELSE @]
    /\ UNCHANGED <<client, durationSeconds, side>>

\* runServer 8)-10): throughput calculation and the summary line, then return
ServerReport ==
    /\ server.pc = "report"
    /\ server' = [server EXCEPT !.summaries = @ + 1, !.pc = "returned"]
    /\ UNCHANGED <<client, net, durationSeconds, side>>

(* ============================ specification ============================ *)
\* what recv() on the client's socket may return now, bar the hard error
ClientRecvNow == RecvReturns(ONE_BYTE_SIZE - client.total, net.s2c, ServerGone)

\* what recv() on the server's socket may return now, bar the hard error
ServerRecvNow(len) == RecvReturns(len - server.total, net.c2s, ClientGone)

ClientSetup ==
    \E ok \in BOOLEAN : ClientResolve(ok) \/ ClientSocket(ok) \/ ClientConnect(ok)

ClientRun ==
    \/ \E sent \in SendReturns(ONE_BYTE_SIZE - client.total) : ClientRttSend(sent)
    \/ \E r \in ClientRecvNow : ClientRttRecv(r)
    \/ ClientCheck
    \/ \E sent \in SendReturns(CHUNK_SIZE - client.total) : ClientSendChunk(sent)
    \/ \E r \in ClientRecvNow : ClientRecvAck(r)
    \/ ClientReport

\* send() or recv() on the client's socket returns -1
ClientIoError ==
    ClientRttSend(-1) \/ ClientRttRecv(-1) \/ ClientSendChunk(-1) \/ ClientRecvAck(-1)

ServerSetup ==
    \E ok \in BOOLEAN :
        ServerSocket(ok) \/ ServerBind(ok) \/ ServerListen(ok) \/ ServerAccept(ok)

ServerRun ==
    \/ \E r \in ServerRecvNow(ONE_BYTE_SIZE) : ServerRttRecv(r)
    \/ \E sent \in SendReturns(ONE_BYTE_SIZE - server.total) : ServerRttSend(sent)
    \/ \E r \in ServerRecvNow(CHUNK_SIZE) : ServerRecvChunk(r)
    \/ \E sent \in SendReturns(ONE_BYTE_SIZE - server.total) : ServerSendAck(sent)
    \/ ServerReport

\* send() or recv() on the server's socket returns -1
ServerIoError ==
    ServerRttRecv(-1) \/ ServerRttSend(-1) \/ ServerRecvChunk(-1) \/ ServerSendAck(-1)

Next ==
    \/ ClientSetup
    \/ ClientRun
    \/ ClientIoError
    \/ ServerSetup
    \/ ServerRun
    \/ ServerIoError
    \/ Tick

Spec == Init /\ [][Next]_vars

\* the two processes keep running and the stream keeps delivering; a hard
\* error of a primitive is never forced
FairSpec == Spec /\ WF_vars(ClientRun) /\ WF_vars(ServerRun) /\ WF_vars(Tick)

\* as FairSpec, and the setup calls return too (with success or failure)
LiveSpec ==
    /\ Spec
    /\ WF_vars(ClientSetup) /\ WF_vars(ClientRun)
    /\ WF_vars(ServerSetup) /\ WF_vars(ServerRun)
    /\ WF_vars(Tick)

(* ------------------ the RTT phase with its clock ----------------------- *)
\* high_resolution_clock advances while the RTT exchanges run
RttTick ==
    /\ ClientPhase(client.pc) = "RttProbe"
    /\ now < MaxTime
    /\ now' = now + 1
    /\ UNCHANGED <<client, server, net, durationSeconds, calc, xfer, cmd>>

RttNext ==
    \/ ClientSetup
    \/ ServerSetup
    \/ \E sent \in SendReturns(ONE_BYTE_SIZE - client.total) : ClientRttSend(sent)
    \/ \E r \in ClientRecvNow : ClientRttRecv(r)
    \/ \E r \in ServerRecvNow(ONE_BYTE_SIZE) : ServerRttRecv(r)
    \/ \E sent \in SendReturns(ONE_BYTE_SIZE - server.total) : ServerRttSend(sent)
    \/ RttTick

\* the session up to the end of the RTT phase, with the clock running
SpecRtt == Init /\ [][RttNext]_vars

(* ------------------ the averaging on its own --------------------------- *)
\* the sample vectors the averaging code may be handed
SampleVectors == UNION {[1..n -> 0..MaxMs] : n \in 0..MaxSamples}

InitAvg ==
    /\ InitSession
    /\ durationSeconds = 1
    /\ calc \in {[op |-> "samples", rttSamples |-> v, avgRTT |-> [num |-> 0, den |-> 1]]
                  : v \in SampleVectors}
    /\ xfer = Idle /\ cmd = Idle

\* the block after the RTT loop, identical in both roles
ComputeAvg ==
    /\ calc.op = "samples"
    /\ calc' = [calc EXCEPT !.op = "avg", !.avgRTT = AvgRTT(calc.rttSamples)]
    /\ UNCHANGED <<client, server, net, durationSeconds, now, xfer, cmd>>

SpecAvg == InitAvg /\ [][ComputeAvg]_vars

(* ------------------ the throughput calculation ------------------------- *)
\* Times are exact fractions: avgRTT is num/den milliseconds, dataMs is
\* dataSeconds in milliseconds, and netSeconds is held in units of
\* 1/(1000 * den) second, so that dataSeconds - chunkCount * avgRTTsec is
\* dataMs * den - chunkCount * num.

\* variant: the negative difference is kept
NetSecondsNoFallback(dataMs, chunkCount, avgRTT) ==
    dataMs * avgRTT.den - chunkCount * avgRTT.num

NetSeconds(dataMs, chunkCount, avgRTT) ==
    LET netSeconds == dataMs * avgRTT.den - chunkCount * avgRTT.num
    IN IF netSeconds < 0 THEN dataMs * avgRTT.den ELSE netSeconds

\* rateMbps as a fraction; netSeconds in units of 1/(1000 * den) second
RateMbps(totalBytes, netSeconds, den) ==
    IF netSeconds > 0
    THEN [num |-> totalBytes * 8 * den, den |-> netSeconds * 1000]
    ELSE [num |-> 0, den |-> 1]

\* the estimates the RTT phase can hand to the calculation
Estimates == {AvgRTT(v) : v \in SampleVectors}

InitCalc ==
    /\ InitSession
    /\ durationSeconds = 1
    /\ calc \in {[op |-> "inputs", dataMs |-> d, chunkCount |-> n,
                   totalBytes |-> n * CHUNK_SIZE, avgRTT |-> a,
                   netSeconds |-> 0, rateMbps |-> [num |-> 0, den |-> 1]]
                  : d \in 0..MaxElapsedMs, n \in 0..MaxChunks, a \in Estimates}
    /\ xfer = Idle /\ cmd = Idle

\* the block after close(), identical in both roles
ComputeRate ==
    /\ calc.op = "inputs"
    /\ LET netSeconds == NetSeconds(calc.dataMs, calc.chunkCount, calc.avgRTT)
       IN calc' = [calc EXCEPT !.op = "rate", !.netSeconds = netSeconds,
                               !.rateMbps = RateMbps(calc.totalBytes, netSeconds,
                                                     calc.avgRTT.den)]
    /\ UNCHANGED <<client, server, net, durationSeconds, now, xfer, cmd>>

SpecCalc == InitCalc /\ [][ComputeRate]_vars

(* ------------------ one call of sendAll or recvAll --------------------- *)
\* xfer is one call: the function, its len, the running total and whether
\* it is still in its loop or has returned true ("ok") or false ("fail").
\* calls, last and moved are history: the number of send()/recv() calls
\* made, the last value one returned and the bytes they reported in all.
InitIo ==
    /\ InitSession
    /\ durationSeconds = 1
    /\ xfer \in {[op |-> "call", fn |-> f, len |-> l, total |-> 0,
                   status |-> "more", calls |-> 0, last |-> 0, moved |-> 0]
                  : f \in {"sendAll", "recvAll"}, l \in 0..MaxLen}
    /\ calc = Idle /\ cmd = Idle

\* values send()/recv() may return when asked for remaining bytes
PrimitiveReturns(remaining) == (-1)..remaining

\* one pass of the loop: the condition holds, the primitive returns ret
IoPass(ret) ==
    /\ xfer.status = "more"
    /\ xfer.total < xfer.len
    /\ LET res == IF xfer.fn = "sendAll"
                  THEN SendAllStep(xfer.total, xfer.len, ret)
                  ELSE RecvAllStep(xfer.total, xfer.len, ret)
       IN xfer' = [xfer EXCEPT !.status = res.status, !.total = res.total,
                               !.calls = @ + 1, !.last = ret,
                               !.moved = @ + Moved(ret)]
    /\ UNCHANGED <<client, server, net, durationSeconds, now, calc, cmd>>

\* the loop condition fails at entry: len is 0 and the call returns true
IoEmpty ==
    /\ xfer.status = "more"
    /\ ~(xfer.total < xfer.len)
    /\ xfer' = [xfer EXCEPT !.status = "ok"]
    /\ UNCHANGED <<client, server, net, durationSeconds, now, calc, cmd>>

IoNext ==
    \/ \E ret \in PrimitiveReturns(xfer.len - xfer.total) : IoPass(ret)
    \/ IoEmpty

SpecIo == InitIo /\ [][IoNext]_vars

(* ------------------------------ main ----------------------------------- *)
\* A command line is a sequence of items after argv[0]: the flags -s and -c,
\* the options -h <host>, -p <port> and -t <time> with their value, a stray
\* word ("x") and an option cxxopts does not know ("bad").  cxxopts is a
\* third-party library: parse() counts the occurrences of each option,
\* keeps the last value of a repeated one, leaves stray words aside, gives
\* false for an absent flag and throws on an unknown option.  --help is not
\* among the items.
Items ==
    {[k |-> a, v |-> 0] : a \in {"s", "c", "h", "x", "bad"}}
        \cup {[k |-> "p", v |-> n] : n \in {1023, 1024, 65535, 65536}}
        \cup {[k |-> "t", v |-> d] : d \in {0, 2}}

CommandLines == UNION {[1..n -> Items] : n \in 0..MaxArgs}

\* words of argv an item takes
Width(item) == IF item.k \in {"h", "p", "t"} THEN 2 ELSE 1

RECURSIVE Words(_)
Words(argv) == IF argv = <<>> THEN 0 ELSE Width(Head(argv)) + Words(Tail(argv))

Argc(argv) == 1 + Words(argv)

\* parsed.count(name)
Count(argv, name) == Cardinality({i \in DOMAIN argv : argv[i].k = name})

\* parsed[name].as<T>() of an option that is present
Value(argv, name) ==
    LET last == CHOOSE i \in DOMAIN argv :
                    /\ argv[i].k = name
                    /\ \A j \in DOMAIN argv : argv[j].k = name => j <= i
    IN argv[last].v

InitMain ==
    /\ InitSession
    /\ durationSeconds = 1
    /\ cmd \in {[op |-> "main", argv |-> a, pc |-> "argc", status |-> 0,
                  entered |-> "none", port |-> 0, duration |-> 0,
                  outcome |-> "none"] : a \in CommandLines}
    /\ calc = Idle /\ xfer = Idle

\* main returns (or the process exits) with the given status
Exit(m, status) == [m EXCEPT !.pc = "exited", !.status = status]

MainArgc ==
    /\ cmd.pc = "argc"
    /\ cmd' = IF Argc(cmd.argv) < 4 THEN Exit(cmd, 1)
              ELSE [cmd EXCEPT !.pc = "mode"]
    /\ UNCHANGED <<client, server, net, durationSeconds, now, calc, xfer>>

\* the argument count is checked against the mode named by argv[1] only
WrongCount(argv) ==
    \/ argv[1].k = "s" /\ Argc(argv) # 4
    \/ argv[1].k = "c" /\ Argc(argv) # 8

MainMode ==
    /\ cmd.pc = "mode"
    /\ cmd' = IF WrongCount(cmd.argv) THEN Exit(cmd, 1)
              ELSE [cmd EXCEPT !.pc = "parse"]
    /\ UNCHANGED <<client, server, net, durationSeconds, now, calc, xfer>>

MainParse ==
    /\ cmd.pc = "parse"
    /\ cmd' = IF Count(cmd.argv, "bad") > 0 THEN Exit(cmd, 1)
              ELSE [cmd EXCEPT !.pc = "help"]
    /\ UNCHANGED <<client, server, net, durationSeconds, now, calc, xfer>>

MainHelp ==
    /\ cmd.pc = "help"
    /\ cmd' = IF Count(cmd.argv, "s") = 0 /\ Count(cmd.argv, "c") = 0
              THEN Exit(cmd, 0)
              ELSE [cmd EXCEPT !.pc = "port"]
    /\ UNCHANGED <<client, server, net, durationSeconds, now, calc, xfer>>

\* variant: the lower limit of the port is not checked
PortRejectedAbove(port) == port > 65535

PortRejected(port) == port < 1024 \/ port > 65535

MainPort ==
    /\ cmd.pc = "port"
    /\ cmd' = IF Count(cmd.argv, "p") = 0 THEN Exit(cmd, 1)
              ELSE IF PortRejected(Value(cmd.argv, "p")) THEN Exit(cmd, 1)
              ELSE [cmd EXCEPT !.pc = "role", !.port = Value(cmd.argv, "p")]
    /\ UNCHANGED <<client, server, net, durationSeconds, now, calc, xfer>>

\* the if (isServer) ... else if (isClient) ... of main
MainRole ==
    /\ cmd.pc = "role"
    /\ LET isServer == Count(cmd.argv, "s") > 0
           isClient == Count(cmd.argv, "c") > 0
           host == Count(cmd.argv, "h") > 0
           time == Count(cmd.argv, "t") > 0
       IN cmd' =
            IF isServer
            THEN IF host \/ time THEN Exit(cmd, 1)
                 ELSE [cmd EXCEPT !.pc = "session", !.entered = "runServer"]
            ELSE IF isClient
            THEN IF ~host \/ ~time THEN Exit(cmd, 1)
                 ELSE IF Value(cmd.argv, "t") <= 0 THEN Exit(cmd, 1)
                 ELSE [cmd EXCEPT !.pc = "session", !.entered = "runClient",
                                  !.duration = Value(cmd.argv, "t")]
            ELSE Exit(cmd, 0)
    /\ UNCHANGED <<client, server, net, durationSeconds, now, calc, xfer>>

\* how runServer or runClient ends: exit(1) in the setup, return after an
\* I/O failure in the RTT loop, return after the summary
Outcomes == {"setup", "aborted", "report"}

MainSession(outcome) ==
    /\ cmd.pc = "session"
    /\ cmd' = [Exit(cmd, IF outcome = "setup" THEN 1 ELSE 0)
                  EXCEPT !.outcome = outcome]
    /\ UNCHANGED <<client, server, net, durationSeconds, now, calc, xfer>>

MainNext ==
    \/ MainArgc
    \/ MainMode
    \/ MainParse
    \/ MainHelp
    \/ MainPort
    \/ MainRole
    \/ \E outcome \in Outcomes : MainSession(outcome)

SpecMain == InitMain /\ [][MainNext]_vars

(* =============================== properties ============================ *)
\* the RTT phase of a role ended with all its exchanges done
ClientRttDone == client.dataSent > 0 \/ ClientPhase(client.pc) \in {"Transfer", "Report"}
ServerRttDone == server.dataRecv > 0 \/ ServerPhase(server.pc) \in {"Transfer", "Report"}

\* a phase is entered only from the phase before it
PhaseStep(before, after) ==
    /\ PhaseRank(after) >= PhaseRank(before)
    /\ (after = "Transfer" /\ before # "Transfer") => before = "RttProbe"
    /\ (after = "Report" /\ before # "Report") => before = "Transfer"

\* C1: for both roles all RTT_EXCHANGES probe/ack round trips are complete
\* before a byte of a data chunk is sent by the client or read as chunk data
\* by the server, and the phases RttProbe, Transfer, Report are entered in
\* that order and never left backwards.
C1_RttBeforeTransfer ==
    /\ [](ClientRttDone => /\ client.probesSent = RTT_EXCHANGES
                           /\ client.probeAcks = RTT_EXCHANGES)
    /\ [](ServerRttDone => /\ server.probesRecv = RTT_EXCHANGES
                           /\ server.probeAcks = RTT_EXCHANGES)
    /\ [][/\ PhaseStep(ClientPhase(client.pc), ClientPhase(client'.pc))
          /\ PhaseStep(ServerPhase(server.pc), ServerPhase(server'.pc))]_vars

C1_Witness ==
    /\ client.pc = "returned" /\ client.summaries = 1 /\ client.dataSent > 0
    /\ server.pc = "returned" /\ server.summaries = 1 /\ server.dataRecv > 0

\* C2: stop-and-wait: the client hands no byte of chunk k+1 to send() before
\* the ack of chunk k has been received, so chunks fully sent minus acks
\* received is at most 1, and the server sends at most one ack per chunk it
\* has fully received.
C2_StopAndWait ==
    /\ client.chunksSent - client.acksRecv \in {0, 1}
    /\ client.dataSent <= CHUNK_SIZE * (client.acksRecv + 1)
    /\ client.pc = "sendChunk" => client.chunksSent = client.acksRecv
    /\ server.acksSent <= server.chunksRecv
    /\ server.chunksRecv - server.acksSent <= 1

C2_Witness ==
    /\ client.chunksSent = 2 /\ client.acksRecv = 1 /\ client.pc = "recvAck"
    /\ server.chunksRecv = 2 /\ server.acksSent = 1

\* C3 as stated: an I/O failure in the Transfer phase ends the session
\* without Report, and no summary line is written.
C3_NoSummaryAfterTransferFailure ==
    /\ client.failedIn = "transfer" => client.pc # "report" /\ client.summaries = 0
    /\ server.failedIn = "transfer" => server.pc # "report" /\ server.summaries = 0

\* C3 amended: for both roles an I/O failure in the Transfer phase leaves the
\* loop, closes the connection and enters Report; the session returns with
\* exactly one summary line, whose counts are those reached at the failure.
C3_TransferFailureReports ==
    /\ client.failedIn = "transfer" =>
          /\ client.closes = 1
          /\ client.pc \in {"report", "returned"}
          /\ client.summaries = (IF client.pc = "returned" THEN 1 ELSE 0)
          /\ client.chunkCount = client.chunksSent
    /\ server.failedIn = "transfer" =>
          /\ server.closes = 1
          /\ server.pc \in {"report", "returned"}
          /\ server.summaries = (IF server.pc = "returned" THEN 1 ELSE 0)
          /\ server.chunkCount = server.chunksRecv

C3_Witness ==
    /\ client.failedIn = "transfer" /\ client.pc = "returned" /\ client.summaries = 1
    /\ server.failedIn = "transfer" /\ server.pc = "returned" /\ server.summaries = 1
    /\ server.chunkCount = 2

\* C4: a sendAll/recvAll failure in the RTT phase closes the connection and
\* returns: the Transfer phase is not entered, no chunk is counted, no summary
\* is written; a server that saw fewer than 2 probe bytes holds at most one
\* sample.
C4_RttFailureAborts ==
    /\ client.failedIn = "rtt" =>
          /\ client.pc = "returned" /\ client.closes = 1
          /\ client.dataSent = 0 /\ client.chunkCount = 0
          /\ client.totalBytesSent = 0 /\ client.summaries = 0
    /\ server.failedIn = "rtt" =>
          /\ server.pc = "returned" /\ server.closes = 1
          /\ server.dataRecv = 0 /\ server.chunkCount = 0
          /\ server.totalBytesReceived = 0 /\ server.summaries = 0
          /\ server.probesRecv < 2 => Len(server.rttSamples) <= 1

C4_Witness ==
    /\ client.failedIn = "rtt" /\ client.pc = "returned"
    /\ server.failedIn = "rtt" /\ server.pc = "returned"
    /\ server.failedCall = "recv" /\ server.probesRecv = 1

\* C5: on every exit path on which the connection's socket exists it is
\* closed exactly once, and no send or recv is issued on it after the close.
C5_ClosedOnce ==
    /\ client.closes <= 1 /\ ~client.usedAfterClose
    /\ client.closes = (IF client.sock = "closed" THEN 1 ELSE 0)
    /\ (client.pc \in {"report", "returned", "exit1"} /\ client.sock # "none")
          => client.closes = 1
    /\ server.closes <= 1 /\ ~server.usedAfterClose
    /\ server.closes = (IF server.sock = "closed" THEN 1 ELSE 0)
    /\ (server.pc \in {"report", "returned", "exit1"} /\ server.sock # "none")
          => server.closes = 1

C5_Witness ==
    /\ client.pc = "returned" /\ client.closes = 1 /\ client.failedIn = "none"
    /\ server.pc = "returned" /\ server.closes = 1 /\ server.failedIn = "transfer"

C5_WitnessRttFailure ==
    /\ client.pc = "returned" /\ client.closes = 1 /\ client.failedIn = "rtt"
    /\ server.pc = "returned" /\ server.closes = 1 /\ server.failedIn = "rtt"

C5_WitnessConnectFailure ==
    client.pc = "exit1" /\ client.closes = 1

\* C6: on both sides the byte total is chunkCount * CHUNK_SIZE at every point:
\* the two counters change only together, and a step in which a sendAll or
\* recvAll of the Transfer phase fails changes neither.
C6_BytesMatchChunks ==
    /\ [](client.totalBytesSent = client.chunkCount * CHUNK_SIZE)
    /\ [](server.totalBytesReceived = server.chunkCount * CHUNK_SIZE)
    /\ [][/\ (client'.chunkCount # client.chunkCount)
                <=> (client'.totalBytesSent # client.totalBytesSent)
          /\ (server'.chunkCount # server.chunkCount)
                <=> (server'.totalBytesReceived # server.totalBytesReceived)
          /\ (client'.failedIn # client.failedIn) =>
                /\ client'.chunkCount = client.chunkCount
                /\ client'.totalBytesSent = client.totalBytesSent
          /\ (server'.failedIn # server.failedIn) =>
                /\ server'.chunkCount = server.chunkCount
                /\ server'.totalBytesReceived = server.totalBytesReceived]_vars

C6_Witness ==
    /\ client.failedIn = "transfer" /\ client.failedCall = "send"
    /\ client.total > 0 /\ client.chunkCount = 1
    /\ server.failedIn = "transfer" /\ server.total > 0 /\ server.chunkCount = 1

\* C7: in the client's Transfer loop a chunk whose sendAll fails is not
\* counted, a chunk whose sendAll succeeds is counted even when the ack's
\* recvAll then fails, and after the first I/O failure nothing more is sent
\* or counted.
C7_ClientCounting ==
    /\ [](client.chunkCount = client.chunksSent)
    /\ [](client.chunkCount = client.dataSent \div CHUNK_SIZE)
    /\ []((client.failedIn = "transfer" /\ client.failedCall = "send")
             => client.chunkCount = client.acksRecv)
    /\ []((client.failedIn = "transfer" /\ client.failedCall = "recv")
             => client.chunkCount = client.acksRecv + 1)
    /\ [][client.failedIn # "none" =>
             /\ client'.dataSent = client.dataSent
             /\ client'.chunkCount = client.chunkCount
             /\ client'.totalBytesSent = client.totalBytesSent
             /\ client'.failedIn = client.failedIn
             /\ client'.failedCall = client.failedCall
             /\ ClientPhase(client'.pc) \in {"Report", "Closed"}]_vars

C7_Witness ==
    /\ client.failedIn = "transfer" /\ client.failedCall = "recv"
    /\ client.chunkCount = 2 /\ client.acksRecv = 1 /\ client.pc = "returned"

C7_WitnessSendFailed ==
    /\ client.failedIn = "transfer" /\ client.failedCall = "send"
    /\ client.total > 0 /\ client.chunkCount = 1 /\ client.pc = "returned"

\* C8: the server's chunkCount is the number of complete CHUNK_SIZE reads
\* that succeeded: a read is counted before its ack is written, and a read
\* that fails (hard error or peer close, between chunks or inside one) ends
\* the loop uncounted, so a close after k complete chunks leaves k counted.
C8_ServerCounting ==
    /\ server.chunkCount = server.chunksRecv
    /\ server.chunkCount = server.dataRecv \div CHUNK_SIZE
    /\ server.pc = "sendAck" => server.chunkCount = server.acksSent + 1
    /\ server.pc = "recvChunk" => server.chunkCount = server.acksSent
    /\ (server.failedIn = "transfer" /\ server.failedCall = "recv")
          => /\ server.chunkCount = server.acksSent
             /\ server.chunkCount * CHUNK_SIZE + server.total = server.dataRecv

C8_Witness ==
    /\ server.failedIn = "transfer" /\ server.failedCall = "recv"
    /\ server.chunkCount = 2 /\ server.total = 0 /\ ClientGone
    /\ client.failedIn = "none"

C8_WitnessMidChunk ==
    /\ server.failedIn = "transfer" /\ server.failedCall = "recv"
    /\ server.chunkCount = 1 /\ server.total > 0

\* C9: the server leaves its Transfer loop only through a failed sendAll or
\* recvAll, and once the client has closed its end a server in the Transfer
\* loop eventually leaves it and closes its connection.
C9_ServerEndsAfterClientClose ==
    /\ [][(ServerPhase(server.pc) = "Transfer" /\ ServerPhase(server'.pc) # "Transfer")
             => (server.failedIn = "none" /\ server'.failedIn = "transfer")]_vars
    /\ (ClientGone /\ ServerPhase(server.pc) = "Transfer")
          ~> (server.sock = "closed" /\ ServerPhase(server.pc) # "Transfer")

C9_Witness ==
    /\ client.pc = "returned" /\ client.failedIn = "none" /\ client.chunkCount = 2
    /\ server.pc = "returned" /\ server.failedIn = "transfer"
    /\ server.failedCall = "recv" /\ server.sock = "closed"

\* C10: when the RTT phase has completed the client holds exactly
\* RTT_EXCHANGES samples and the server RTT_EXCHANGES - 1, the server having
\* taken none in its first iteration; neither side ever holds more than
\* RTT_EXCHANGES.
C10_SampleCounts ==
    /\ Len(client.rttSamples) <= RTT_EXCHANGES
    /\ Len(server.rttSamples) <= RTT_EXCHANGES
    /\ Len(client.rttSamples) = client.probeAcks
    /\ Len(server.rttSamples) = (IF server.probesRecv = 0 THEN 0 ELSE server.probesRecv - 1)
    /\ Len(server.sampleIter) = Len(server.rttSamples)
    /\ Len(client.sampleIter) = Len(client.rttSamples)
    /\ \A k \in 1..Len(server.sampleIter) : server.sampleIter[k] = k
    /\ \A k \in 1..Len(client.sampleIter) : client.sampleIter[k] = k - 1
    /\ ClientRttDone => Len(client.rttSamples) = RTT_EXCHANGES
    /\ ServerRttDone => Len(server.rttSamples) = RTT_EXCHANGES - 1

C10_Witness ==
    /\ ClientPhase(client.pc) = "Transfer" /\ Len(client.rttSamples) = RTT_EXCHANGES
    /\ ServerPhase(server.pc) = "Transfer" /\ Len(server.rttSamples) = RTT_EXCHANGES - 1

(* C11 (as stated): every server RTT sample is the time between the ack of
   its own iteration and the ack of the previous iteration, so the sample of
   an iteration exists only once that iteration's ack has been sent: with k
   samples, k + 1 acks have been sent.  The code contradicts both parts. *)
C11_SampleIsAckToAck ==
    /\ Len(server.rttSamples) > 0
          => Len(server.ackTimes) >= Len(server.rttSamples) + 1
    /\ \A k \in 1..Len(server.rttSamples) :
          k + 1 <= Len(server.ackTimes)
            => server.rttSamples[k] = server.ackTimes[k + 1] - server.ackTimes[k]

(* C11 (amended): every server RTT sample, taken from the second iteration
   on, is the time between the ack of the previous iteration and the arrival
   of the probe of its own iteration, and it is appended before the ack of
   its own iteration is sent: the server has one sample per probe received
   after the first, whatever the number of acks sent since. *)
C11_SampleIsAckToProbe ==
    /\ Len(server.rttSamples) =
          (IF Len(server.recvTimes) = 0 THEN 0 ELSE Len(server.recvTimes) - 1)
    /\ Len(server.ackTimes) <= Len(server.recvTimes)
    /\ Len(server.recvTimes) <= Len(server.ackTimes) + 1
    /\ \A k \in 1..Len(server.rttSamples) :
          server.rttSamples[k] = server.recvTimes[k + 1] - server.ackTimes[k]

\* the server holds the sample of an iteration whose ack is still to be sent,
\* and the clock has moved between the previous ack and the probe
C11_Witness ==
    /\ server.pc = "rttSend"
    /\ Len(server.rttSamples) >= 2
    /\ Len(server.ackTimes) = Len(server.rttSamples)
    /\ \E k \in 1..Len(server.rttSamples) : server.rttSamples[k] > 0
    /\ server.ackTimes[1] > 0

\* sum of a sequence, front to back
RECURSIVE SeqSum(_)
SeqSum(q) == IF q = <<>> THEN 0 ELSE Head(q) + SeqSum(Tail(q))

\* the last min(4, n) entries of a sequence of length n
LastFour(q) == SubSeq(q, Len(q) - Min(4, Len(q)) + 1, Len(q))

(* C12: the RTT estimate is the arithmetic mean of the last min(4, n)
   samples in arrival order, 0 when there is no sample, and no sample before
   the last four changes it. *)
C12_MeanOfLastFour ==
    calc.op = "avg" =>
        LET q == calc.rttSamples
            n == Len(q)
        IN /\ n = 0 => calc.avgRTT.num = 0 /\ calc.avgRTT.den = 1
           /\ n > 0 => /\ calc.avgRTT.den = Min(4, n)
                       /\ calc.avgRTT.num = SeqSum(LastFour(q))
           /\ \A k \in 1..(n - 4) : \A v \in 0..MaxMs :
                 AvgRTT([q EXCEPT ![k] = v]) = calc.avgRTT

\* an estimate of 0 from more than four samples whose first is not 0
C12_Witness ==
    /\ calc.op = "avg"
    /\ Len(calc.rttSamples) > 4
    /\ calc.rttSamples[1] > 0
    /\ calc.avgRTT.num = 0

\* elapsed time and RTT overhead of a calculation, in units of
\* 1/(1000 * den) second
ElapsedUnits == calc.dataMs * calc.avgRTT.den
OverheadUnits == calc.chunkCount * calc.avgRTT.num

(* C13: netSeconds is never negative; it is elapsed - chunkCount * rtt when
   that is not negative and exactly elapsed when chunkCount * rtt exceeds
   elapsed; the rate is bytes * 8 / netSeconds / 1e6 when netSeconds > 0 and
   0 otherwise. *)
C13_NetSecondsAndRate ==
    calc.op = "rate" =>
        /\ calc.netSeconds >= 0
        /\ OverheadUnits <= ElapsedUnits
              => calc.netSeconds = ElapsedUnits - OverheadUnits
        /\ OverheadUnits > ElapsedUnits => calc.netSeconds = ElapsedUnits
        /\ calc.netSeconds > 0
              => /\ calc.rateMbps.num = calc.totalBytes * 8 * calc.avgRTT.den
                 /\ calc.rateMbps.den = calc.netSeconds * 1000
        /\ calc.netSeconds = 0 => calc.rateMbps.num = 0 /\ calc.rateMbps.den = 1

\* the overhead exceeds the elapsed time and the rate is computed from the
\* whole elapsed time
C13_Witness ==
    /\ calc.op = "rate"
    /\ OverheadUnits > ElapsedUnits
    /\ calc.netSeconds > 0
    /\ calc.rateMbps.num > 0

\* the overhead equals the elapsed time: no division, rate 0
C13_WitnessZero ==
    /\ calc.op = "rate"
    /\ calc.dataMs > 0
    /\ OverheadUnits = ElapsedUnits
    /\ calc.rateMbps.num = 0

(* C14: sendAll and recvAll return true only when exactly len bytes were
   transferred, the running total never exceeds len, and they return false
   at the first return of the primitive that is negative or 0, which can
   only come before len is reached. *)
C14_AllOrFailure ==
    /\ xfer.total <= xfer.len
    /\ xfer.total = xfer.moved
    /\ xfer.status = "ok" => xfer.moved = xfer.len
    /\ xfer.status = "fail" => xfer.last <= 0 /\ xfer.moved < xfer.len
    /\ (xfer.calls > 0 /\ xfer.last <= 0) => xfer.status = "fail"
    /\ (xfer.status = "more" /\ xfer.calls > 0) => xfer.moved < xfer.len

\* a call that returned true after several partial transfers
C14_Witness ==
    /\ xfer.status = "ok"
    /\ xfer.len >= 3
    /\ xfer.calls >= 3

\* a call that returned false after a partial transfer
C14_WitnessFailure ==
    /\ xfer.status = "fail"
    /\ xfer.fn = "recvAll"
    /\ xfer.moved > 0
    /\ xfer.last = 0

\* what a command line supplies, read off its items
Supplied(name) == \E i \in DOMAIN cmd.argv : cmd.argv[i].k = name
SuppliedValues(name) == {cmd.argv[i].v : i \in {j \in DOMAIN cmd.argv : cmd.argv[j].k = name}}

\* the argument-validation failures: no mode, no port or a port out of
\* range, client mode without host or duration or with a duration <= 0,
\* host or duration in server mode, a stray word
ArgumentFailure ==
    \/ ~Supplied("s") /\ ~Supplied("c")
    \/ ~Supplied("p")
    \/ \E n \in SuppliedValues("p") : n < 1024 \/ n > 65535
    \/ Supplied("c") /\ ~Supplied("s") /\ (~Supplied("h") \/ ~Supplied("t"))
    \/ Supplied("c") /\ ~Supplied("s") /\ \E d \in SuppliedValues("t") : d <= 0
    \/ Supplied("s") /\ ~Supplied("c") /\ (Supplied("h") \/ Supplied("t"))
    \/ Supplied("x")

(* C15: the exit status is 0 when the session reached Report or was aborted
   by an I/O failure, and 1 after a setup failure and after every
   argument-validation failure. *)
C15_ExitStatus ==
    cmd.pc = "exited" =>
        /\ cmd.outcome \in {"report", "aborted"} => cmd.status = 0
        /\ cmd.outcome = "setup" => cmd.status = 1
        /\ ArgumentFailure => cmd.status = 1 /\ cmd.entered = "none"

(* C16: a command line that selects both server mode and client mode never
   enters runServer or runClient. *)
C16_ModesExclusive ==
    (Supplied("s") /\ Supplied("c")) => cmd.entered = "none"

(* C17: runServer is entered only with a port in [1024, 65535] and neither
   host nor duration supplied, runClient only with a port in range, a host
   and a duration > 0; on every other command line main ends without
   entering either, so without creating a socket. *)
C17_EnteredOnlyWhenValid ==
    /\ cmd.entered = "runServer" =>
          /\ cmd.port \in SuppliedValues("p")
          /\ cmd.port >= 1024 /\ cmd.port <= 65535
          /\ ~Supplied("h") /\ ~Supplied("t")
    /\ cmd.entered = "runClient" =>
          /\ cmd.port \in SuppliedValues("p")
          /\ cmd.port >= 1024 /\ cmd.port <= 65535
          /\ Supplied("h")
          /\ cmd.duration \in SuppliedValues("t") /\ cmd.duration > 0
    /\ cmd.outcome # "none" => cmd.entered # "none"
    /\ (cmd.pc = "exited" /\ cmd.entered = "none") =>
          \/ cmd.status = 1
          \/ ~Supplied("s") /\ ~Supplied("c")

\* a client session entered with the lowest port, and a rejected line that
\* names the port just below it
C17_Witness ==
    /\ cmd.entered = "runClient"
    /\ cmd.port = 1024
    /\ cmd.outcome = "report"

C17_WitnessRejected ==
    /\ cmd.pc = "exited"
    /\ cmd.entered = "none"
    /\ Supplied("s")
    /\ SuppliedValues("p") = {1023}
    /\ Argc(cmd.argv) = 4

\* the client waits for an ack that is not there, the server's end is open
ClientBlockedOnAck ==
    client.pc = "recvAck" /\ net.s2c = 0 /\ ~ServerGone

(* C18: the client tests the elapsed time only at the top of a Transfer
   iteration: it starts a chunk only while elapsed < D; once the chunk is
   started, only the completed send, the received ack or an I/O failure move
   it on, and the passing of time moves nothing; a client waiting for an ack
   that does not come has no step to take. *)
C18_CheckedBetweenChunksOnly ==
    /\ [][(client.pc = "check" /\ client'.pc = "sendChunk")
             => client.elapsed < durationSeconds]_vars
    /\ [][(client.pc \in {"sendChunk", "recvAck"} /\ client'.pc # client.pc)
             => \/ /\ client.pc = "sendChunk" /\ client'.pc = "recvAck"
                   /\ client'.chunksSent = client.chunksSent + 1
                \/ /\ client.pc = "recvAck" /\ client'.pc = "check"
                   /\ client'.acksRecv = client.acksRecv + 1
                \/ client.failedIn = "none" /\ client'.failedIn = "transfer"]_vars
    /\ [][client'.elapsed # client.elapsed => client'.pc = client.pc]_vars
    /\ [](ClientBlockedOnAck => ~ENABLED ClientRun)

\* the client waits for an ack after the duration has passed
C18_Witness ==
    /\ ClientBlockedOnAck
    /\ client.elapsed > durationSeconds
    /\ server.pc = "recvChunk"

\* both sessions are over
BothFinished ==
    /\ client.pc \in {"returned", "exit1"}
    /\ server.pc \in {"returned", "exit1"}

(* C19: when both sides have finished, the server has counted as many
   chunks as the client or one fewer; when the client ended by its duration
   test, with no I/O failure of its own, the counts and the byte totals are
   equal. *)
C19_CountsAgree ==
    BothFinished =>
        /\ server.chunkCount <= client.chunkCount
        /\ client.chunkCount <= server.chunkCount + 1
        /\ (client.pc = "returned" /\ client.failedIn = "none") =>
              /\ client.chunkCount = server.chunkCount
              /\ client.totalBytesSent = server.totalBytesReceived

\* a session ended by the client's close after two chunks
C19_Witness ==
    /\ BothFinished
    /\ client.failedIn = "none" /\ client.elapsed >= durationSeconds
    /\ server.failedCall = "recv"
    /\ client.chunkCount = 2 /\ server.chunkCount = 2
    /\ server.totalBytesReceived = 2 * CHUNK_SIZE

\* a session in which the server counted one chunk fewer than the client
C19_WitnessOneFewer ==
    /\ BothFinished
    /\ client.pc = "returned" /\ server.pc = "returned"
    /\ client.chunkCount = server.chunkCount + 1

\* both processes wait in recv(), nothing is queued, both ends are open
BothBlockedInRecv ==
    /\ client.pc \in {"rttRecv", "recvAck"} /\ client.sock = "open"
    /\ server.pc \in {"rttRecv", "recvChunk"} /\ server.sock = "open"
    /\ net.c2s = 0 /\ net.s2c = 0

\* a setup call failed, or an I/O call failed at the client or in the
\* server's RTT loop
SessionFailed ==
    \/ client.pc = "exit1" \/ server.pc = "exit1"
    \/ client.failedIn # "none"
    \/ server.failedIn = "rtt"

BothReported ==
    /\ client.pc = "returned" /\ client.summaries = 1 /\ client.sock = "closed"
    /\ server.pc = "returned" /\ server.summaries = 1 /\ server.sock = "closed"

\* no deadlock, and without failure the client reports once its duration
\* has elapsed and the server reports after it
EndsInReport ==
    /\ []~BothBlockedInRecv
    /\ []((client.pc = "report" /\ client.failedIn = "none")
            => client.elapsed >= durationSeconds)
    /\ <>(SessionFailed \/ BothReported)
    /\ (client.pc = "report" /\ client.failedIn = "none")
          ~> (server.pc = "returned" /\ server.summaries = 1 /\ server.sock = "closed")
    /\ [][/\ PhaseStep(ClientPhase(client.pc), ClientPhase(client'.pc))
          /\ PhaseStep(ServerPhase(server.pc), ServerPhase(server'.pc))]_vars

(* C20 (as stated): with no I/O failure the two processes never deadlock,
   the client reports after its duration and the server after it, and each
   closes its stream after the calculation and the summary. *)
C20_ReportThenClose ==
    /\ EndsInReport
    /\ [][/\ client'.summaries > client.summaries => client.sock = "open"
          /\ server'.summaries > server.summaries => server.sock = "open"]_vars

(* C20 (amended): with no I/O failure the two processes never deadlock, the
   client reports after its duration and the server after it, and each
   closes its stream when it leaves the Transfer loop, before the
   calculation and the summary. *)
C20_CloseThenReport ==
    /\ EndsInReport
    /\ [][/\ client'.summaries > client.summaries => client.sock = "closed"
          /\ server'.summaries > server.summaries => server.sock = "closed"]_vars
    /\ [](client.pc = "report" => client.sock = "closed")
    /\ [](server.pc = "report" => server.sock = "closed")

\* a session without failure at the client: it is about to write its
\* summary with the stream closed while the server still reads
C20_Witness ==
    /\ client.pc = "report" /\ client.failedIn = "none"
    /\ client.sock = "closed" /\ client.chunkCount >= 1
    /\ server.pc = "recvChunk" /\ server.sock = "open"

====
